---- MODULE Spec2Model ----
(***************************************************************************)
(* Model of the MCP chatbot (src/src/mcp_chatbot): the tool-calling loop   *)
(* of MCP_Chatbot.process_query, the connect phase that fills the session  *)
(* registry, and the cli lifecycle that releases the exit stack.           *)
(*                                                                         *)
(* Spec        : one process_query run against a registry left by connect  *)
(* SpecConnect : cli(): connect_to_servers, chat_loop, cleanup             *)
(***************************************************************************)
EXTENDS Integers, Sequences, FiniteSets, TLC

(***************************************************************************)
(* Bounds of the environment (not program constants).                      *)
(***************************************************************************)
\* longest list of function calls the model puts in one response
MaxCalls == 2
\* call_tool invocations the model provokes within one query
MaxDispatch == 2
\* servers named in server_config.json
NumServers == 2

(***************************************************************************)
(* Program constants.                                                      *)
(***************************************************************************)
\* chatbot.py:66
max_iterations == 10

(***************************************************************************)
(* Values.                                                                 *)
(***************************************************************************)
Queries == {"q1"}
\* messages of the exceptions a tool invocation raises
Msgs == {"m1", "m2"}
\* the failure each tool is observed with: t1 fails with m1, the others with m2
MsgsOf(n) == IF n = "t1" THEN {"m1"} ELSE Msgs \ {"m1"}
\* content of the CallToolResult of a tool that returned None: no content blocks
EmptyResult == "[]"
\* contents of a successful CallToolResult
Results == {"r1", EmptyResult}
\* the result each tool is observed with: t2 returns nothing, the others r1
ResultsOf(n) == IF n = "t2" THEN {EmptyResult} ELSE Results \ {EmptyResult}
\* function_call.args as sent by the model: None, or a mapping
NoneArgs == "None"
EmptyArgs == "{}"
\* function-call requests the model may emit: an empty name, two names the
\* registry knows, one it does not know
FunctionCalls ==
    { [name |-> "",   args |-> NoneArgs],
      [name |-> "t1", args |-> "{x}"],
      [name |-> "t2", args |-> NoneArgs],
      [name |-> "zz", args |-> "{x}"] }

RECURSIVE SeqsUpTo(_, _)
SeqsUpTo(S, n) ==
    IF n = 0 THEN { <<>> }
    ELSE LET shorter == SeqsUpTo(S, n - 1)
         IN  shorter \cup { Append(s, x) : s \in { t \in shorter : Len(t) = n - 1 }, x \in S }

\* a GenerateContentResponse: function_calls is empty (None) when there is
\* no candidate
Responses ==
    { [candidates |-> TRUE, function_calls |-> fc] : fc \in SeqsUpTo(FunctionCalls, MaxCalls) }
    \cup { [candidates |-> FALSE, function_calls |-> <<>>] }

NoResponse == [candidates |-> FALSE, function_calls |-> <<>>]
\* sessions are named by the index of their server in the configuration
NoSession == 0
NoCall == [session |-> NoSession, name |-> "", args |-> ""]
NoRead == [session |-> NoSession, uri |-> ""]
\* no argument and no result yet
Nothing == [kind |-> "nothing"]

VARIABLES
    \* ---- MCP_Chatbot fields (chatbot.py:25-29) ----
    session_maps,       \* dict name -> session, in insertion order
    available_tools,    \* list of advertised tool names
    available_prompts,  \* list of prompt names
    exit_stack,         \* contexts entered on the AsyncExitStack, in order
    opened,             \* every context ever entered (observer)
    \* ---- process_query locals ----
    pc,                 \* position inside process_query
    query,
    contents,           \* the transcript
    response,           \* last model response
    iteration,
    idx,                \* position of the for loop in response.function_calls
    inflight,           \* the call_tool being awaited
    warned,             \* truncation warning printed
    \* ---- history of the run (observers, never read by the program) ----
    numRequests,        \* generate_content calls that returned
    numInvocations,     \* call_tool invocations started
    callResponses,      \* responses that contained function calls
    firstCalls,         \* "unset" | "calls" | "text": shape of the first response
    passes,             \* handling passes completed
    passStart,          \* Len(contents) when the current pass began
    passLog,            \* outcome of each request handled in the current pass
    \* ---- cli / connect position ----
    cpc,                \* position inside cli()
    cursor,             \* index of the server being connected
    session,            \* session of the server being connected
    closed,             \* contexts closed by aclose
    cleanupCalls,       \* times cleanup() ran
    regLog,             \* every registration made, in order
    failed,             \* servers whose connect was reported as failed
    cliRaised,          \* an exception is propagating out of cli's try body
    \* ---- chat_loop and its commands ----
    out,                \* what the last step of connect or of chat_loop printed
    lastRead,           \* the uri get_resource was asked for and the session
                        \* whose read_resource it invoked (NoSession: none)
    \* ---- inputs and results of the pure functions ----
    schemaIn,           \* argument of convert_schema
    schemaOut           \* its result

queryVars == <<pc, query, contents, response, iteration, idx, inflight, warned,
               numRequests, numInvocations, callResponses, firstCalls, passes,
               passStart, passLog>>
registryVars == <<session_maps, available_tools, available_prompts>>
cliVars == <<exit_stack, opened, cpc, cursor, session, closed, cleanupCalls, regLog,
             failed, cliRaised>>
shellVars == <<out, lastRead>>
pureVars == <<schemaIn, schemaOut>>
vars == <<session_maps, available_tools, available_prompts, exit_stack, opened,
          pc, query, contents, response, iteration, idx, inflight, warned,
          numRequests, numInvocations, callResponses, firstCalls, passes,
          passStart, passLog,
          cpc, cursor, session, closed, cleanupCalls, regLog, failed, cliRaised,
          out, lastRead, schemaIn, schemaOut>>

(***************************************************************************)
(* The session registry: a Python dict, which keeps insertion order and    *)
(* keeps a key's position when the key is assigned again.                  *)
(***************************************************************************)
Keys(m) == { m[i].name : i \in 1..Len(m) }

Contains(m, n) == n \in Keys(m)

Lookup(m, n) == LET i == CHOOSE j \in 1..Len(m) : m[j].name = n IN m[i].session

\* a registration that keeps the first writer
RegisterKeepFirst(m, n, s) ==
    IF Contains(m, n) THEN m ELSE Append(m, [name |-> n, session |-> s])

\* session_maps[n] = s
Register(m, n, s) ==
    IF Contains(m, n)
    THEN [i \in 1..Len(m) |-> IF m[i].name = n THEN [name |-> n, session |-> s] ELSE m[i]]
    ELSE Append(m, [name |-> n, session |-> s])

(***************************************************************************)
(* Transcript entries: types.Content(role, parts).                         *)
(***************************************************************************)
UserTurn(q) == [role |-> "user", name |-> "", payload |-> <<"text", q>>]

\* Part.from_function_response(name, response={'content': mcp_result.content})
ResultTurn(n, r) == [role |-> "tool", name |-> n, payload |-> <<"content", r>>]

\* Part.from_function_response(name, response={'error': str(e)})
ErrorTurn(n, m) == [role |-> "tool", name |-> n, payload |-> <<"error", m>>]

\* an insertion in front of the entries of the current pass
InsertAtPassStart(c, e) ==
    SubSeq(c, 1, passStart) \o <<e>> \o SubSeq(c, passStart + 1, Len(c))

\* contents.append(entry)
AppendTurn(c, e) == Append(c, e)

\* an invocation that leaves the request's arguments out
ToolArgsDropped(a) == EmptyArgs

\* dict(function_call.args) if function_call.args else {}
ToolArgs(a) == IF a \in {NoneArgs, EmptyArgs} THEN EmptyArgs ELSE a

HasCalls(r) == r.candidates /\ Len(r.function_calls) > 0

\* a request that reaches session.call_tool: non-empty name found in the registry
Dispatchable(c) == c.name # "" /\ Contains(session_maps, c.name)

RECURSIVE CountDispatchable(_)
CountDispatchable(fc) ==
    IF fc = <<>> THEN 0
    ELSE (IF Dispatchable(Head(fc)) THEN 1 ELSE 0) + CountDispatchable(Tail(fc))

\* a loop test that forgets to look at function_calls
LoopConditionIgnoresCalls == response.candidates /\ iteration < max_iterations

\* a loop test that is off by one at the ceiling
LoopConditionOffByOne ==
    response.candidates /\ Len(response.function_calls) > 0 /\ iteration <= max_iterations

\* a loop that runs its body once before it tests (do-while)
LoopConditionTestsAfterBody ==
    \/ iteration = 0
    \/ response.candidates /\ Len(response.function_calls) > 0 /\ iteration < max_iterations

\* while response.candidates and response.function_calls and iteration < max_iterations
LoopCondition ==
    response.candidates /\ Len(response.function_calls) > 0 /\ iteration < max_iterations

\* if iteration >= max_iterations: print("Warning: ...")
TruncationWarning == iteration >= max_iterations


(***************************************************************************)
(* State after construction (chatbot.py:23-33, main.py:10).                *)
(***************************************************************************)
QueryIdle ==
    /\ pc = "idle" /\ query = "" /\ contents = <<>> /\ response = NoResponse
    /\ iteration = 0 /\ idx = 0 /\ inflight = NoCall /\ warned = FALSE
    /\ numRequests = 0 /\ numInvocations = 0 /\ callResponses = 0
    /\ firstCalls = "unset" /\ passes = 0 /\ passStart = 0 /\ passLog = <<>>

\* the registry as connect_to_servers leaves it for two servers 1 and 2
\* advertising one tool each, server 1 also the prompt p1, server 2 also
\* the resource papers://folders
ConnectedRegistry ==
    /\ session_maps = << [name |-> "t1", session |-> 1],
                         [name |-> "p1", session |-> 1],
                         [name |-> "t2", session |-> 2],
                         [name |-> "papers://folders", session |-> 2] >>
    /\ available_tools = << [name |-> "t1", origin |-> 1],
                            [name |-> "t2", origin |-> 2] >>
    /\ available_prompts = << [name |-> "p1", origin |-> 1] >>
    /\ exit_stack = << [kind |-> "transport", server |-> 1],
                       [kind |-> "session",   server |-> 1],
                       [kind |-> "transport", server |-> 2],
                       [kind |-> "session",   server |-> 2] >>
    /\ opened = { [kind |-> k, server |-> i] : k \in {"transport", "session"}, i \in {1, 2} }
    /\ regLog = << [name |-> "t1", session |-> 1, kind |-> "tool"],
                   [name |-> "p1", session |-> 1, kind |-> "prompt"],
                   [name |-> "t2", session |-> 2, kind |-> "tool"],
                   [name |-> "papers://folders", session |-> 2, kind |-> "resource"] >>

\* chat_loop is running: connect is over, cleanup has not run
Init ==
    /\ QueryIdle
    /\ ConnectedRegistry
    /\ cpc = "chat" /\ cursor = 3 /\ session = NoSession /\ closed = {}
    /\ cleanupCalls = 0 /\ failed = {} /\ cliRaised = FALSE
    /\ out = "" /\ lastRead = NoRead
    /\ schemaIn = Nothing /\ schemaOut = Nothing

(***************************************************************************)
(* process_query (chatbot.py:35-116).                                      *)
(***************************************************************************)
\* a transcript kept on the object: the new user turn follows the old entries
CarriedTranscript(old, q) == Append(old, UserTurn(q))

\* chatbot.py:51-56: contents = [] is a local of the call; the user turn is
\* its first entry, whatever an earlier call left behind
FreshTranscript(old, q) == <<UserTurn(q)>>

\* chatbot.py:51-56: a fresh transcript seeded with the user turn
StartQuery(q) ==
    /\ pc \in {"idle", "prompt"}
    /\ cpc = "chat"
    /\ query' = q
    /\ contents' = FreshTranscript(contents, q)
    /\ iteration' = 0
    /\ pc' = "generate"
    /\ response' = NoResponse /\ idx' = 0 /\ inflight' = NoCall /\ warned' = FALSE
    /\ numRequests' = 0 /\ numInvocations' = 0 /\ callResponses' = 0
    /\ firstCalls' = "unset" /\ passes' = 0 /\ passStart' = 1 /\ passLog' = <<>>
    /\ out' = "" /\ lastRead' = NoRead
    /\ UNCHANGED <<registryVars, cliVars, pureVars>>

\* chatbot.py:59-63 and 107-111: the model answers with response r
GenerateContent(r) ==
    /\ pc = "generate"
    /\ numInvocations + CountDispatchable(r.function_calls) <= MaxDispatch
    /\ response' = r
    /\ numRequests' = numRequests + 1
    /\ callResponses' = IF HasCalls(r) THEN callResponses + 1 ELSE callResponses
    /\ firstCalls' = IF firstCalls # "unset" THEN firstCalls
                     ELSE IF HasCalls(r) THEN "calls" ELSE "text"
    /\ pc' = "while"
    /\ UNCHANGED <<query, contents, iteration, idx, inflight, warned,
                   numInvocations, passes, passStart, passLog>>
    /\ UNCHANGED <<registryVars, cliVars, shellVars, pureVars>>

\* chatbot.py:59-63 and 107-111: the provider call raises; nothing in
\* process_query catches it
GenerateContentRaises ==
    /\ pc = "generate"
    /\ pc' = "raised"
    /\ UNCHANGED <<query, contents, response, iteration, idx, inflight, warned,
                   numRequests, numInvocations, callResponses, firstCalls,
                   passes, passStart, passLog>>
    /\ UNCHANGED <<registryVars, cliVars, shellVars, pureVars>>

\* chatbot.py:68-69: the while test, and the increment that opens a pass
WhileTest ==
    /\ pc = "while"
    /\ IF LoopCondition
       THEN /\ iteration' = iteration + 1
            /\ idx' = 1
            /\ passStart' = Len(contents)
            /\ passLog' = <<>>
            /\ pc' = "for"
       ELSE /\ pc' = "final"
            /\ UNCHANGED <<iteration, idx, passStart, passLog>>
    /\ UNCHANGED <<query, contents, response, inflight, warned, numRequests,
                   numInvocations, callResponses, firstCalls, passes>>
    /\ UNCHANGED <<registryVars, cliVars, shellVars, pureVars>>

\* chatbot.py:70-83: the next function call of the response; an empty name
\* is skipped (72-73), a registered name is sent to its session (81-83), a
\* name absent from the registry falls through the if without any append
ForNext ==
    /\ pc = "for"
    /\ idx <= Len(response.function_calls)
    /\ LET fc == response.function_calls[idx] IN
       IF fc.name = ""
       THEN /\ idx' = idx + 1
            /\ passLog' = Append(passLog, [kind |-> "skip", value |-> ""])
            /\ UNCHANGED <<pc, inflight, numInvocations>>
       ELSE IF Contains(session_maps, fc.name)
       THEN /\ inflight' = [session |-> Lookup(session_maps, fc.name),
                            name |-> fc.name, args |-> ToolArgs(fc.args)]
            /\ numInvocations' = numInvocations + 1
            /\ pc' = "calling"
            /\ UNCHANGED <<idx, passLog>>
       ELSE /\ idx' = idx + 1
            /\ passLog' = Append(passLog, [kind |-> "skip", value |-> ""])
            /\ UNCHANGED <<pc, inflight, numInvocations>>
    /\ UNCHANGED <<query, contents, response, iteration, warned, numRequests,
                   callResponses, firstCalls, passes, passStart>>
    /\ UNCHANGED <<registryVars, cliVars, shellVars, pureVars>>

\* chatbot.py:83-91: call_tool returned; its content is appended
CallToolReturns(r) ==
    /\ pc = "calling"
    /\ r \in ResultsOf(inflight.name)
    /\ contents' = AppendTurn(contents, ResultTurn(inflight.name, r))
    /\ passLog' = Append(passLog, [kind |-> "ok", value |-> r])
    /\ inflight' = NoCall
    /\ idx' = idx + 1
    /\ pc' = "for"
    /\ UNCHANGED <<query, response, iteration, warned, numRequests,
                   numInvocations, callResponses, firstCalls, passes, passStart>>
    /\ UNCHANGED <<registryVars, cliVars, shellVars, pureVars>>

\* an except clause that lets the failure leave process_query
ToolExceptionPropagates(m) ==
    /\ contents' = contents
    /\ idx' = idx
    /\ pc' = "raised"

\* chatbot.py:92-104: except Exception as e
ToolExceptionHandled(m) ==
    /\ contents' = AppendTurn(contents, ErrorTurn(inflight.name, m))
    /\ idx' = idx + 1
    /\ pc' = "for"

\* chatbot.py:83, 92-104: call_tool raised an Exception with message m
CallToolRaises(m) ==
    /\ pc = "calling"
    /\ m \in MsgsOf(inflight.name)
    /\ ToolExceptionHandled(m)
    /\ passLog' = Append(passLog, [kind |-> "err", value |-> m])
    /\ inflight' = NoCall
    /\ UNCHANGED <<query, response, iteration, warned, numRequests,
                   numInvocations, callResponses, firstCalls, passes, passStart>>
    /\ UNCHANGED <<registryVars, cliVars, shellVars, pureVars>>

\* chatbot.py:70, 106-107: the for loop is exhausted; the transcript goes
\* back to the model
ForEnd ==
    /\ pc = "for"
    /\ idx > Len(response.function_calls)
    /\ passes' = passes + 1
    /\ pc' = "generate"
    /\ UNCHANGED <<query, contents, response, iteration, idx, inflight, warned,
                   numRequests, numInvocations, callResponses, firstCalls,
                   passStart, passLog>>
    /\ UNCHANGED <<registryVars, cliVars, shellVars, pureVars>>

\* chatbot.py:113-116: the warning and the final text
PrintFinal ==
    /\ pc = "final"
    /\ warned' = TruncationWarning
    /\ pc' = "done"
    /\ UNCHANGED <<query, contents, response, iteration, idx, inflight,
                   numRequests, numInvocations, callResponses, firstCalls,
                   passes, passStart, passLog>>
    /\ UNCHANGED <<registryVars, cliVars, shellVars, pureVars>>

(***************************************************************************)
(* get_resource (chatbot.py:118-141).                                      *)
(***************************************************************************)
\* the topics typed after '@'
Topics == {"folders", "ai", "zz"}

\* chatbot.py:206-210: "papers://folders" for the topic folders, else
\* f"papers://{topic}"
ResourceUri(topic) ==
    CASE topic = "folders" -> "papers://folders"
      [] topic = "ai" -> "papers://ai"
      [] OTHER -> "papers://zz"

\* name.startswith("papers://"), over the names of the model
StartsWithPapers(n) == n \in {"papers://folders", "papers://ai", "papers://zz"}

\* a fallback that takes the most recent papers entry
LastPapersSession(m) ==
    LET hits == { i \in 1..Len(m) : StartsWithPapers(m[i].name) }
    IN  IF hits = {} THEN NoSession
        ELSE m[CHOOSE i \in hits : \A j \in hits : j <= i].session

\* chatbot.py:123-126: the session of the first key of the dict that starts
\* with "papers://"
FirstPapersSession(m) ==
    LET hits == { i \in 1..Len(m) : StartsWithPapers(m[i].name) }
    IN  IF hits = {} THEN NoSession
        ELSE m[CHOOSE i \in hits : \A j \in hits : i <= j].session

\* chatbot.py:119-126: exact lookup, then the papers fallback
ResolveResource(m, uri) ==
    LET exact == IF Contains(m, uri) THEN Lookup(m, uri) ELSE NoSession
    IN  IF exact = NoSession /\ StartsWithPapers(uri)
        THEN FirstPapersSession(m)
        ELSE exact

\* a lookup that remembers the session it found under the requested uri
LookupCaches(m, uri, s) == IF s = NoSession THEN m ELSE Register(m, uri, s)

\* chatbot.py:119-126: session_maps after the lookup; get and items only read
LookupKeeps(m, uri, s) == m

\* chatbot.py:118-141: o is how read_resource ends: with contents, without
\* contents, or with an exception, which is printed
GetResource(uri, o) ==
    LET s == ResolveResource(session_maps, uri) IN
    /\ session_maps' = LookupKeeps(session_maps, uri, s)
    /\ IF s = NoSession
       THEN /\ out' = "resource_not_found"
            /\ lastRead' = [session |-> NoSession, uri |-> uri]
       ELSE /\ lastRead' = [session |-> s, uri |-> uri]
            /\ out' = CASE o = "content" -> "resource_content"
                        [] o = "empty" -> "no_content"
                        [] OTHER -> "error"

(***************************************************************************)
(* chat_loop (chatbot.py:186-248).                                         *)
(***************************************************************************)
\* the locals of an earlier process_query call are gone
ResetLocals ==
    /\ query' = "" /\ contents' = <<>> /\ response' = NoResponse
    /\ iteration' = 0 /\ idx' = 0 /\ inflight' = NoCall /\ warned' = FALSE
    /\ numRequests' = 0 /\ numInvocations' = 0 /\ callResponses' = 0
    /\ firstCalls' = "unset" /\ passes' = 0 /\ passStart' = 0 /\ passLog' = <<>>

\* the command ran without process_query; chat_loop is back at input()
ResetQuery == pc' = "idle" /\ ResetLocals

\* chat_loop is waiting in input()
AtPrompt == cpc = "chat" /\ pc = "idle"

\* chatbot.py:241-242: process_query returned
QueryReturns ==
    /\ cpc = "chat"
    /\ pc = "done"
    /\ pc' = "idle"
    /\ out' = ""
    /\ UNCHANGED <<query, contents, response, iteration, idx, inflight, warned,
                   numRequests, numInvocations, callResponses, firstCalls,
                   passes, passStart, passLog>>
    /\ UNCHANGED <<registryVars, cliVars, lastRead, pureVars>>

\* an except clause that lets the exception end the while loop
ChatErrorEndsLoop ==
    /\ pc' = "idle"
    /\ out' = "error"
    /\ cpc' = "cleanup"

\* chatbot.py:243-244: except Exception prints the error; the while loop
\* goes on
ChatErrorHandled ==
    /\ pc' = "idle"
    /\ out' = "error"
    /\ cpc' = cpc

\* chatbot.py:241, 243-244: process_query raised
QueryRaises ==
    /\ cpc = "chat"
    /\ pc = "raised"
    /\ ChatErrorHandled
    /\ UNCHANGED <<query, contents, response, iteration, idx, inflight, warned,
                   numRequests, numInvocations, callResponses, firstCalls,
                   passes, passStart, passLog>>
    /\ UNCHANGED <<exit_stack, opened, cursor, session, closed, cleanupCalls,
                   regLog, failed, cliRaised>>
    /\ UNCHANGED <<registryVars, lastRead, pureVars>>

\* chatbot.py:198, 243-244: input() raises an Exception (end of input)
InputRaises ==
    /\ AtPrompt
    /\ ResetQuery
    /\ out' = "error"
    /\ lastRead' = NoRead
    /\ UNCHANGED <<registryVars, cliVars, pureVars>>

\* chatbot.py:204-212: '@topic' prints a resource
AtResource(topic, o) ==
    /\ AtPrompt
    /\ ResetQuery
    /\ GetResource(ResourceUri(topic), o)
    /\ UNCHANGED <<available_tools, available_prompts, cliVars, pureVars>>

\* chatbot.py:215-239: '/prompts' lists the prompts (143-157), '/prompt'
\* without a name prints the usage, any other '/word' is unknown
Command(c) ==
    /\ AtPrompt
    /\ ResetQuery
    /\ out' = CASE c = "/prompts" ->
                     IF available_prompts = <<>> THEN "no_prompts_available" ELSE "prompts"
                [] c = "/prompt" -> "usage"
                [] OTHER -> "unknown_command"
    /\ lastRead' = NoRead
    /\ UNCHANGED <<registryVars, cliVars, pureVars>>

\* chatbot.py:221-236, 159-184: '/prompt name': the session registered for
\* the name is asked for the prompt; o is how get_prompt ends: with
\* messages, without, or with an exception, which is printed.  With
\* messages process_query is called on their text: the step leaves the
\* program in front of that call.
ExecutePrompt(name, o) ==
    /\ AtPrompt
    /\ ResetLocals
    /\ lastRead' = NoRead
    /\ IF ~Contains(session_maps, name)
       THEN out' = "prompt_not_found" /\ pc' = "idle"
       ELSE CASE o = "messages" -> out' = "executing_prompt" /\ pc' = "prompt"
              [] o = "empty" -> out' = "" /\ pc' = "idle"
              [] OTHER -> out' = "error" /\ pc' = "idle"
    /\ UNCHANGED <<registryVars, cliVars, pureVars>>

\* chatbot.py:199-201, 247-248: 'quit' leaves the loop
Quit ==
    /\ AtPrompt
    /\ ResetQuery
    /\ out' = "exiting"
    /\ lastRead' = NoRead
    /\ cpc' = "cleanup"
    /\ UNCHANGED <<exit_stack, opened, cursor, session, closed, cleanupCalls,
                   regLog, failed, cliRaised>>
    /\ UNCHANGED <<registryVars, pureVars>>

\* chatbot.py:245-248: KeyboardInterrupt while waiting for input leaves the loop
Interrupt ==
    /\ AtPrompt
    /\ ResetQuery
    /\ out' = "goodbye"
    /\ lastRead' = NoRead
    /\ cpc' = "cleanup"
    /\ UNCHANGED <<exit_stack, opened, cursor, session, closed, cleanupCalls,
                   regLog, failed, cliRaised>>
    /\ UNCHANGED <<registryVars, pureVars>>

ReadOutcomes == {"content", "empty", "raise"}
\* names typed after '/prompt': a registered prompt, a registered tool, an
\* unknown name
PromptNames == {"p1", "t2", "zz"}
PromptOutcomes == {"messages", "empty", "raise"}
Commands == {"/prompts", "/prompt", "/other"}

Next ==
    \/ \E q \in Queries : StartQuery(q)
    \/ QueryReturns
    \/ QueryRaises
    \/ InputRaises
    \/ \E topic \in Topics, o \in ReadOutcomes : AtResource(topic, o)
    \/ \E c \in Commands : Command(c)
    \/ \E name \in PromptNames, o \in PromptOutcomes : ExecutePrompt(name, o)
    \/ Quit
    \/ Interrupt
    \/ \E r \in Responses : GenerateContent(r)
    \/ GenerateContentRaises
    \/ WhileTest
    \/ ForNext
    \/ \E r \in Results : CallToolReturns(r)
    \/ \E m \in Msgs : CallToolRaises(m)
    \/ ForEnd
    \/ PrintFinal

Spec == Init /\ [][Next]_vars

TypeOK ==
    /\ cpc \in {"load", "params", "transport", "session", "initialize", "list_tools",
                "list_prompts", "list_resources", "chat", "cleanup", "exited"}
    /\ pc \in {"idle", "prompt", "generate", "while", "for", "calling", "final", "done",
               "raised"}
    /\ iteration \in 0..max_iterations
    /\ response \in Responses
    /\ numInvocations \in 0..MaxDispatch


(***************************************************************************)
(* Properties of process_query.                                            *)
(***************************************************************************)
Calls == response.function_calls

\* the transcript entries appended since the current pass began
PassEntries == SubSeq(contents, passStart + 1, Len(contents))

\* the model is being asked again after a handling pass
Resubmitting == pc = "generate" /\ iteration > 0

\* a handling pass is under way or has just ended
InPass == pc \in {"for", "calling"} \/ Resubmitting

RECURSIVE EntriesOf(_, _)
\* number of requests among the first k of the pass log that left an entry
EntriesOf(log, k) ==
    IF k = 0 THEN 0
    ELSE (IF log[k].kind = "skip" THEN 0 ELSE 1) + EntriesOf(log, k - 1)

RECURSIVE DispatchedNames(_, _)
\* names of the first k requests that reach call_tool, in request order
DispatchedNames(fc, k) ==
    IF k = 0 THEN <<>>
    ELSE IF Dispatchable(fc[k])
         THEN Append(DispatchedNames(fc, k - 1), fc[k].name)
         ELSE DispatchedNames(fc, k - 1)

\* C1: the loop cannot run past the ceiling: never more than max_iterations
\* (10) handling passes nor more than max_iterations + 1 model requests in
\* one query; a model that asks for function calls in every response gets
\* exactly 10 passes, after which the loop is left and the truncation
\* warning is printed.
C1_CeilingEndsLoop ==
    /\ iteration <= max_iterations
    /\ passes <= max_iterations
    /\ numRequests <= max_iterations + 1
    /\ pc \in {"final", "done"} /\ callResponses = numRequests
         => /\ passes = max_iterations
            /\ iteration = max_iterations
            /\ numRequests = max_iterations + 1
    /\ pc = "done" /\ callResponses = numRequests => warned

C1_Witness ==
    pc = "done" /\ callResponses = numRequests /\ passes = max_iterations /\ warned

\* C2: a call_tool that raises does not leave process_query: an entry with
\* role tool and payload {"error": message} is appended, the for loop goes
\* on with the next request, and the transcript is resubmitted only after
\* every request of the response was handled.
C2_ToolFailureIsAbsorbed ==
    /\ [](InPass =>
            /\ \A i \in 1..Len(passLog) :
                  passLog[i].kind = "err"
                    => contents[passStart + EntriesOf(passLog, i)]
                         = [role |-> "tool", name |-> Calls[i].name,
                            payload |-> <<"error", passLog[i].value>>]
            /\ (Resubmitting => Len(passLog) = Len(Calls)))
    /\ [][pc = "calling" /\ Len(passLog') > Len(passLog)
             /\ passLog'[Len(passLog')].kind = "err"
            => /\ pc' = "for"
               /\ idx' = idx + 1
               /\ Len(contents') = Len(contents) + 1]_vars

C2_Witness ==
    /\ Resubmitting
    /\ \E i \in 1..Len(passLog) : passLog[i].kind = "err" /\ i < Len(passLog)

\* C3 (as claimed): when a pass ends, every function-call request of the
\* response has exactly one tool entry in the transcript.
C3_EveryRequestHasEntry ==
    Resubmitting => Len(PassEntries) = Len(Calls)

\* C4: within a pass the requests are dispatched one at a time in request
\* order: when request idx is in flight or about to be looked at, the tool
\* entries of the pass are exactly those of the earlier dispatched requests,
\* in request order; the model is asked again only after the last request.
C4_SequentialInOrder ==
    /\ pc \in {"for", "calling"}
         => /\ [i \in 1..Len(PassEntries) |-> PassEntries[i].name]
                 = DispatchedNames(Calls, idx - 1)
            /\ \A i \in 1..Len(PassEntries) : PassEntries[i].role = "tool"
    /\ pc = "calling"
         => /\ idx \in 1..Len(Calls)
            /\ inflight.name = Calls[idx].name
    /\ Resubmitting
         => /\ idx = Len(Calls) + 1
            /\ [i \in 1..Len(PassEntries) |-> PassEntries[i].name]
                 = DispatchedNames(Calls, Len(Calls))

C4_Witness ==
    /\ Resubmitting
    /\ Len(PassEntries) = 2
    /\ PassEntries[1].name # PassEntries[2].name

\* C5: when the first response has no function calls, the query ends after
\* one model request, without any tool invocation, and the transcript is
\* still the user turn alone.
C5_TextOnlyFirstResponse ==
    pc = "done" /\ firstCalls = "text"
        => /\ numInvocations = 0
           /\ numRequests = 1
           /\ passes = 0
           /\ contents = <<UserTurn(query)>>

C5_Witness ==
    pc = "done" /\ firstCalls = "text" /\ response.candidates /\ numRequests = 1

\* C6: when the run ends on a text-only response that follows N responses
\* with function calls, exactly N handling passes were performed.
C6_PassesEqualCallResponses ==
    pc = "done" /\ ~HasCalls(response)
        => passes = callResponses /\ iteration = callResponses

C6_Witness ==
    pc = "done" /\ ~HasCalls(response) /\ passes = 3 /\ callResponses = 3

\* C7 (as claimed): after k model responses and c dispatched calls the
\* transcript holds the user turn, k model turns and c tool entries.
C7_TranscriptCountsModelTurns ==
    pc \notin {"idle", "raised"}
        => Len(contents) = 1 + numRequests
                             + (numInvocations - (IF pc = "calling" THEN 1 ELSE 0))


(***************************************************************************)
(* cli (main.py:7-15), connect_to_servers and connect_to_server            *)
(* (chatbot.py:250-318), cleanup (chatbot.py:320-322).                     *)
(***************************************************************************)
\* what list_tools, list_prompts and list_resources of a server may return
ToolLists == { <<>>, <<"t1">>, <<"t2">>, <<"t1", "t2">> }
PromptLists == { <<>>, <<"p1">>, <<"t1">> }
ResourceLists == { <<>>, <<"papers://folders">>, <<"papers://ai", "p1">> }

\* how an awaited step of connect ends: it returns, it raises an Exception,
\* or a BaseException (KeyboardInterrupt, CancelledError) passes through
StepOutcomes == {"ok", "raise", "interrupt"}

RECURSIVE RegisterAll(_, _, _)
\* for c in names: self.session_maps[c] = session
RegisterAll(m, names, s) ==
    IF names = <<>> THEN m
    ELSE RegisterAll(Register(m, Head(names), s), Tail(names), s)

\* the entries a listing adds to the list of advertised tools or prompts
Advertised(names, s) == [i \in 1..Len(names) |-> [name |-> names[i], origin |-> s]]

\* the registrations a listing makes, in order
Logged(names, s, k) ==
    [i \in 1..Len(names) |-> [name |-> names[i], session |-> s, kind |-> k]]

InitConnect ==
    /\ QueryIdle
    /\ session_maps = <<>> /\ available_tools = <<>> /\ available_prompts = <<>>
    /\ exit_stack = <<>> /\ opened = {}
    /\ cpc = "load" /\ cursor = 0 /\ session = NoSession /\ closed = {}
    /\ cleanupCalls = 0 /\ regLog = <<>> /\ failed = {} /\ cliRaised = FALSE
    /\ out = "" /\ lastRead = NoRead
    /\ schemaIn = Nothing /\ schemaOut = Nothing

\* chatbot.py:314-315: the for loop of connect_to_servers moves on
NextServer ==
    /\ cursor' = cursor + 1
    /\ session' = NoSession
    /\ cpc' = IF cursor + 1 > NumServers THEN "chat" ELSE "params"

\* chatbot.py:303-304: except Exception in connect_to_server prints and returns
ReportFailure ==
    /\ failed' = failed \cup {cursor}
    /\ NextServer

\* a cli without the finally clause
LeaveTrySkippingCleanup ==
    /\ cliRaised' = TRUE
    /\ cpc' = "exited"

\* main.py:11-15: an exception leaves the try body of cli; finally runs
LeaveTryRaising ==
    /\ cliRaised' = TRUE
    /\ cpc' = "cleanup"

\* what a step of connect_to_server prints: the tools on success of
\* list_tools (266-267), the unsupported capability (286, 299), the failure (304)
StepOutput(o, okMsg, unsupportedMsg) ==
    CASE o = "ok" -> okMsg
      [] o = "unsupported" -> unsupportedMsg
      [] o = "raise" -> "connect_failed"
      [] OTHER -> ""

\* an except clause that prints the configuration error and goes on
ConfigErrorSwallowed ==
    /\ cpc' = "chat"
    /\ UNCHANGED <<cliRaised, cursor>>

\* chatbot.py:316-318: the configuration error is printed and raised again
ConfigErrorRaised ==
    /\ LeaveTryRaising
    /\ UNCHANGED cursor

\* chatbot.py:308-312, 316-318: the configuration is read; a failure is
\* printed and raised again
LoadConfig(ok) ==
    /\ cpc = "load"
    /\ IF ok
       THEN /\ cursor' = 1
            /\ cpc' = IF NumServers >= 1 THEN "params" ELSE "chat"
            /\ UNCHANGED cliRaised
       ELSE ConfigErrorRaised
    /\ out' = IF ok THEN "" ELSE "config_error"
    /\ UNCHANGED <<session, failed, exit_stack, opened, closed, cleanupCalls, regLog>>
    /\ UNCHANGED <<registryVars, queryVars, lastRead, pureVars>>

\* chatbot.py:253: StdioServerParameters(**server_config)
MakeParams(ok) ==
    /\ cpc = "params"
    /\ IF ok
       THEN cpc' = "transport" /\ UNCHANGED <<cursor, session, failed>>
       ELSE ReportFailure
    /\ out' = IF ok THEN "" ELSE "connect_failed"
    /\ UNCHANGED <<exit_stack, opened, closed, cleanupCalls, regLog, cliRaised>>
    /\ UNCHANGED <<registryVars, queryVars, lastRead, pureVars>>

\* chatbot.py:254-256: enter_async_context(stdio_client(...))
EnterTransport(o) ==
    /\ cpc = "transport"
    /\ out' = StepOutput(o, "", "")
    /\ LET ctx == [kind |-> "transport", server |-> cursor] IN
       CASE o = "ok" ->
              /\ exit_stack' = Append(exit_stack, ctx)
              /\ opened' = opened \cup {ctx}
              /\ cpc' = "session"
              /\ UNCHANGED <<cursor, session, failed, cliRaised>>
         [] o = "raise" ->
              /\ ReportFailure
              /\ UNCHANGED <<exit_stack, opened, cliRaised>>
         [] o = "interrupt" ->
              /\ LeaveTryRaising
              /\ UNCHANGED <<exit_stack, opened, cursor, session, failed>>
    /\ UNCHANGED <<closed, cleanupCalls, regLog>>
    /\ UNCHANGED <<registryVars, queryVars, lastRead, pureVars>>

\* chatbot.py:257-260: enter_async_context(ClientSession(read, write))
EnterSession(o) ==
    /\ cpc = "session"
    /\ out' = StepOutput(o, "", "")
    /\ LET ctx == [kind |-> "session", server |-> cursor] IN
       CASE o = "ok" ->
              /\ exit_stack' = Append(exit_stack, ctx)
              /\ opened' = opened \cup {ctx}
              /\ session' = cursor
              /\ cpc' = "initialize"
              /\ UNCHANGED <<cursor, failed, cliRaised>>
         [] o = "raise" ->
              /\ ReportFailure
              /\ UNCHANGED <<exit_stack, opened, cliRaised>>
         [] o = "interrupt" ->
              /\ LeaveTryRaising
              /\ UNCHANGED <<exit_stack, opened, cursor, session, failed>>
    /\ UNCHANGED <<closed, cleanupCalls, regLog>>
    /\ UNCHANGED <<registryVars, queryVars, lastRead, pureVars>>

\* chatbot.py:261: await session.initialize()
Initialize(o) ==
    /\ cpc = "initialize"
    /\ out' = StepOutput(o, "", "")
    /\ CASE o = "ok" ->
              /\ cpc' = "list_tools"
              /\ UNCHANGED <<cursor, session, failed, cliRaised>>
         [] o = "raise" ->
              /\ ReportFailure
              /\ UNCHANGED cliRaised
         [] o = "interrupt" ->
              /\ LeaveTryRaising
              /\ UNCHANGED <<cursor, session, failed>>
    /\ UNCHANGED <<exit_stack, opened, closed, cleanupCalls, regLog>>
    /\ UNCHANGED <<registryVars, queryVars, lastRead, pureVars>>

\* chatbot.py:264-271: list_tools; every tool is registered and advertised
ListTools(o, tools) ==
    /\ cpc = "list_tools"
    /\ out' = StepOutput(o, "connected", "")
    /\ CASE o = "ok" ->
              /\ session_maps' = RegisterAll(session_maps, tools, session)
              /\ available_tools' = available_tools \o Advertised(tools, session)
              /\ regLog' = regLog \o Logged(tools, session, "tool")
              /\ cpc' = "list_prompts"
              /\ UNCHANGED <<cursor, session, failed, cliRaised>>
         [] o = "raise" ->
              /\ ReportFailure
              /\ UNCHANGED <<session_maps, available_tools, regLog, cliRaised>>
         [] o = "interrupt" ->
              /\ LeaveTryRaising
              /\ UNCHANGED <<session_maps, available_tools, regLog, cursor, session, failed>>
    /\ UNCHANGED <<available_prompts, exit_stack, opened, closed, cleanupCalls>>
    /\ UNCHANGED <<queryVars, lastRead, pureVars>>

\* a handler that raises "Method not found" again like any other McpError
MethodNotFoundIsFailure ==
    /\ ReportFailure
    /\ UNCHANGED cliRaised

\* chatbot.py:284-286: "Method not found" is printed; connect goes on with
\* the resources
PromptsUnsupported ==
    /\ cpc' = "list_resources"
    /\ UNCHANGED <<cursor, session, failed, cliRaised>>

\* chatbot.py:273-288: list_prompts; "Method not found" is printed and
\* skipped, any other exception reaches the outer except
ListPrompts(o, prompts) ==
    /\ cpc = "list_prompts"
    /\ out' = StepOutput(o, "", "no_prompts")
    /\ CASE o = "ok" ->
              /\ session_maps' = RegisterAll(session_maps, prompts, session)
              /\ available_prompts' = available_prompts \o Advertised(prompts, session)
              /\ regLog' = regLog \o Logged(prompts, session, "prompt")
              /\ cpc' = "list_resources"
              /\ UNCHANGED <<cursor, session, failed, cliRaised>>
         [] o = "unsupported" ->
              /\ PromptsUnsupported
              /\ UNCHANGED <<session_maps, available_prompts, regLog>>
         [] o = "raise" ->
              /\ ReportFailure
              /\ UNCHANGED <<session_maps, available_prompts, regLog, cliRaised>>
         [] o = "interrupt" ->
              /\ LeaveTryRaising
              /\ UNCHANGED <<session_maps, available_prompts, regLog, cursor, session, failed>>
    /\ UNCHANGED <<available_tools, exit_stack, opened, closed, cleanupCalls>>
    /\ UNCHANGED <<queryVars, lastRead, pureVars>>

\* chatbot.py:290-301: list_resources; same handling as the prompts
ListResources(o, resources) ==
    /\ cpc = "list_resources"
    /\ out' = StepOutput(o, "", "no_resources")
    /\ CASE o = "ok" ->
              /\ session_maps' = RegisterAll(session_maps, resources, session)
              /\ regLog' = regLog \o Logged(resources, session, "resource")
              /\ NextServer
              /\ UNCHANGED <<failed, cliRaised>>
         [] o = "unsupported" ->
              /\ NextServer
              /\ UNCHANGED <<session_maps, regLog, failed, cliRaised>>
         [] o = "raise" ->
              /\ ReportFailure
              /\ UNCHANGED <<session_maps, regLog, cliRaised>>
         [] o = "interrupt" ->
              /\ LeaveTryRaising
              /\ UNCHANGED <<session_maps, regLog, cursor, session, failed>>
    /\ UNCHANGED <<available_tools, available_prompts, exit_stack, opened, closed,
                   cleanupCalls>>
    /\ UNCHANGED <<queryVars, lastRead, pureVars>>

\* main.py:13: chat_loop runs and ends, by returning or with an exception
\* that its handlers do not catch
ChatLoop(ok) ==
    /\ cpc = "chat"
    /\ pc = "idle"
    /\ out' = "goodbye"
    /\ IF ok
       THEN cpc' = "cleanup" /\ UNCHANGED cliRaised
       ELSE LeaveTryRaising
    /\ UNCHANGED <<cursor, session, failed, exit_stack, opened, closed,
                   cleanupCalls, regLog>>
    /\ UNCHANGED <<registryVars, queryVars, pureVars>>
    /\ lastRead' = NoRead

\* main.py:14-15, chatbot.py:320-322: exit_stack.aclose() closes every
\* context that was entered
Cleanup ==
    /\ cpc = "cleanup"
    /\ out' = ""
    /\ cleanupCalls' = cleanupCalls + 1
    /\ closed' = closed \cup { exit_stack[i] : i \in 1..Len(exit_stack) }
    /\ exit_stack' = <<>>
    /\ cpc' = "exited"
    /\ UNCHANGED <<opened, cursor, session, failed, regLog, cliRaised>>
    /\ UNCHANGED <<registryVars, queryVars, lastRead, pureVars>>

NextConnect ==
    \/ \E ok \in BOOLEAN : LoadConfig(ok)
    \/ \E ok \in BOOLEAN : MakeParams(ok)
    \/ \E o \in StepOutcomes : EnterTransport(o)
    \/ \E o \in StepOutcomes : EnterSession(o)
    \/ \E o \in StepOutcomes : Initialize(o)
    \/ \E o \in StepOutcomes, tools \in ToolLists : ListTools(o, tools)
    \/ \E o \in StepOutcomes \cup {"unsupported"}, prompts \in PromptLists :
          ListPrompts(o, prompts)
    \/ \E o \in StepOutcomes \cup {"unsupported"}, resources \in ResourceLists :
          ListResources(o, resources)
    \/ \E ok \in BOOLEAN : ChatLoop(ok)
    \/ Cleanup

SpecConnect == InitConnect /\ [][NextConnect]_vars

(***************************************************************************)
(* get_resource against every registry that the resource listings of the   *)
(* servers can leave.                                                      *)
(***************************************************************************)
\* names a server may list as resources: two papers uris and a name that
\* does not start with papers://
ResourceNames == {"papers://folders", "papers://ai", "t1"}

\* lists of at most two resources
ListedResources == SeqsUpTo(ResourceNames, 2)

RECURSIVE RegistryOf(_, _)
\* session_maps after servers 1..n listed the resources f[1], ..., f[n]
RegistryOf(f, n) ==
    IF n = 0 THEN <<>>
    ELSE RegisterAll(RegistryOf(f, n - 1), f[n], n)

RECURSIVE LogOf(_, _)
\* the registrations made on the way, in order
LogOf(f, n) ==
    IF n = 0 THEN <<>>
    ELSE LogOf(f, n - 1) \o Logged(f[n], n, "resource")

\* chat_loop is running after every server connected and listed resources
InitResource ==
    /\ QueryIdle
    /\ \E f \in [1..NumServers -> ListedResources] :
          /\ session_maps = RegistryOf(f, NumServers)
          /\ regLog = LogOf(f, NumServers)
    /\ available_tools = <<>> /\ available_prompts = <<>>
    /\ opened = { [kind |-> k, server |-> i] :
                    k \in {"transport", "session"}, i \in 1..NumServers }
    /\ exit_stack = [i \in 1..(2 * NumServers) |->
                       [kind |-> IF i % 2 = 1 THEN "transport" ELSE "session",
                        server |-> (i + 1) \div 2]]
    /\ cpc = "chat" /\ cursor = NumServers + 1 /\ session = NoSession /\ closed = {}
    /\ cleanupCalls = 0 /\ failed = {} /\ cliRaised = FALSE
    /\ out = "" /\ lastRead = NoRead
    /\ schemaIn = Nothing /\ schemaOut = Nothing

NextResource ==
    \E topic \in Topics, o \in ReadOutcomes : AtResource(topic, o)

SpecResource == InitResource /\ [][NextResource]_vars


(***************************************************************************)
(* Properties of the connect phase and of the cli lifecycle.               *)
(***************************************************************************)
LoggedNames == { regLog[i].name : i \in 1..Len(regLog) }

\* the session of the most recent registration of name n
LastRegistered(n) ==
    LET i == CHOOSE j \in 1..Len(regLog) :
                /\ regLog[j].name = n
                /\ \A k \in (j + 1)..Len(regLog) : regLog[k].name # n
    IN  regLog[i].session

StackContexts == { exit_stack[i] : i \in 1..Len(exit_stack) }

\* connect_to_servers has returned
ConnectDone == cpc = "chat"

\* C8: a lookup returns the session of the latest registration of the name,
\* also when the name was registered before by another server or by the
\* same one.
C8_LastRegistrationWins ==
    /\ Keys(session_maps) = LoggedNames
    /\ \A n \in LoggedNames : Lookup(session_maps, n) = LastRegistered(n)

C8_Witness ==
    /\ ConnectDone
    /\ \E i, j \in 1..Len(regLog) :
          /\ i < j
          /\ regLog[i].name = regLog[j].name
          /\ regLog[i].session # regLog[j].session
          /\ Lookup(session_maps, regLog[j].name) = regLog[j].session
    /\ \E i, j \in 1..Len(regLog) :
          /\ i < j
          /\ regLog[i].name = regLog[j].name
          /\ regLog[i].session = regLog[j].session

\* C9 (as claimed): once connect_to_servers has returned, no registry entry
\* and no advertised tool belongs to a server whose connect failed, and
\* every other server has its session open and its capabilities registered.
C9_FailedServerLeavesNothing ==
    ConnectDone =>
        /\ \A i \in failed :
              /\ \A k \in 1..Len(session_maps) : session_maps[k].session # i
              /\ \A k \in 1..Len(available_tools) : available_tools[k].origin # i
        /\ \A j \in (1..NumServers) \ failed :
              /\ [kind |-> "session", server |-> j] \in StackContexts
              /\ \A k \in 1..Len(regLog) :
                    regLog[k].session = j => Contains(session_maps, regLog[k].name)

\* C10: cleanup runs exactly once, as the last step of cli, whether the try
\* body returned or raised; until then every entered context is on the exit
\* stack, and cleanup closes all of them, those of failed servers included.
C10_CleanupOnceClosesAll ==
    /\ cleanupCalls <= 1
    /\ (cleanupCalls = 1) <=> (cpc = "exited")
    /\ cpc # "exited" => closed = {} /\ StackContexts = opened
    /\ cpc = "exited" => closed = opened /\ exit_stack = <<>>

C10_Witness ==
    /\ cpc = "exited"
    /\ cliRaised
    /\ cleanupCalls = 1
    /\ \E i \in failed : [kind |-> "session", server |-> i] \in closed
    /\ \E j \in (1..NumServers) \ failed : [kind |-> "session", server |-> j] \in closed


\* the configuration could not be loaded: the for loop over the servers
\* was never reached
ConfigFailed == cursor = 0 /\ cpc # "load"

C13_UnsupportedIsNoOp ==
    /\ [](out = "no_prompts"
            => /\ cpc = "list_resources"
               /\ cursor \notin failed
               /\ \A k \in 1..Len(available_tools) :
                     available_tools[k].origin = cursor
                       => Contains(session_maps, available_tools[k].name))
    /\ [][cpc = "list_prompts" /\ out' = "no_prompts"
            => /\ session_maps' = session_maps
               /\ available_tools' = available_tools
               /\ failed' = failed /\ cliRaised' = cliRaised
               /\ cursor' = cursor /\ cpc' = "list_resources"]_vars
    /\ [][cpc = "list_resources" /\ out' = "no_resources"
            => /\ session_maps' = session_maps
               /\ available_tools' = available_tools
               /\ failed' = failed /\ cliRaised' = cliRaised
               /\ cursor' = cursor + 1]_vars

C13_Witness ==
    /\ out = "no_prompts"
    /\ cpc = "list_resources"
    /\ \E k \in 1..Len(available_tools) : available_tools[k].origin = cursor


(***************************************************************************)
(* Properties of chat_loop and get_resource.                               *)
(***************************************************************************)
\* C12: an exception that leaves process_query (a provider failure at the
\* first request or at a resubmission) is printed by chat_loop, which then
\* waits for the next input; the loop is left only from input(), by 'quit'
\* or by a user interrupt.
C12_QueryFailureKeepsSession ==
    /\ [][pc = "raised"
            => /\ pc' = "idle"
               /\ out' = "error"
               /\ cpc' = "chat"]_vars
    /\ [][cpc = "chat" /\ cpc' # "chat"
            => /\ pc = "idle"
               /\ out' \in {"exiting", "goodbye"}]_vars
    /\ [](pc # "idle" => cpc = "chat")

\* the failure came at a resubmission, and chat_loop is back at input()
C12_Witness ==
    /\ AtPrompt
    /\ out = "error"
    /\ numRequests >= 1
    /\ passes >= 1

\* the session of the papers name that was registered first
FirstRegisteredPapers ==
    LET hits == { i \in 1..Len(regLog) : StartsWithPapers(regLog[i].name) }
        first == CHOOSE i \in hits : \A j \in hits : i <= j
    IN  Lookup(session_maps, regLog[first].name)

\* C20: get_resource invokes read_resource on the session registered for
\* the exact uri; else, for a papers:// uri, on the session of the first
\* registered papers:// name, in registration order; else it reports 'not
\* found' and invokes nothing.
C20_ResourceResolution ==
    lastRead.uri # ""
      => IF Contains(session_maps, lastRead.uri)
         THEN /\ lastRead.session = Lookup(session_maps, lastRead.uri)
              /\ out # "resource_not_found"
         ELSE IF /\ StartsWithPapers(lastRead.uri)
                 /\ \E n \in Keys(session_maps) : StartsWithPapers(n)
         THEN /\ lastRead.session = FirstRegisteredPapers
              /\ out # "resource_not_found"
         ELSE /\ lastRead.session = NoSession
              /\ out = "resource_not_found"

\* the fallback chose between two papers names of different sessions
C20_Witness ==
    /\ lastRead.uri = "papers://zz"
    /\ lastRead.session # NoSession
    /\ \E i, j \in 1..Len(session_maps) :
          /\ StartsWithPapers(session_maps[i].name)
          /\ StartsWithPapers(session_maps[j].name)
          /\ session_maps[i].session # session_maps[j].session

\* the sessions that listed n as a tool
ToolServers(n) ==
    { regLog[i].session : i \in { j \in 1..Len(regLog) :
                                    regLog[j].kind = "tool" /\ regLog[j].name = n } }

\* C19: after any sequence of connects the registry entry of every
\* advertised tool name is a session that listed that name as a tool, so
\* process_query's call_tool for it goes to a session serving the tool.
C19_ToolEntryServesTool ==
    \A i \in 1..Len(available_tools) :
        /\ Contains(session_maps, available_tools[i].name)
        /\ Lookup(session_maps, available_tools[i].name)
              \in ToolServers(available_tools[i].name)

\* the fixed text that stands for a result of None
Sentinel == "The operation completed but didn't return any results."

\* C18: a tool result of None is normalised before it enters the
\* transcript: the entry of a tool that returned nothing holds the sentinel
\* text, never the empty result itself.
C18_EmptyResultIsSentinel ==
    \A i \in 1..Len(contents) :
        contents[i].role = "tool" /\ contents[i].payload[1] = "content"
          => contents[i].payload[2] \in (Results \ {EmptyResult}) \cup {Sentinel}

(***************************************************************************)
(* adapter/tool_schema_converter.py: convert_schema.  A Python dict is a   *)
(* function from its keys, a string is the sequence of its characters, and *)
(* an unset field of types.Schema is a field the record does not have.     *)
(***************************************************************************)
\* the number of property names a schema may declare
MaxProps == 2

LowerCase == <<"a", "b", "c", "d", "e", "f", "g", "h", "i", "j", "k", "l", "m", "n", "o", "p", "q", "r", "s", "t", "u", "v", "w", "x", "y", "z">>
UpperCase == <<"A", "B", "C", "D", "E", "F", "G", "H", "I", "J", "K", "L", "M", "N", "O", "P", "Q", "R", "S", "T", "U", "V", "W", "X", "Y", "Z">>

\* str.upper() on one character
UpperChar(c) ==
    IF \E i \in 1..Len(LowerCase) : LowerCase[i] = c
    THEN UpperCase[CHOOSE i \in 1..Len(LowerCase) : LowerCase[i] = c]
    ELSE c

\* a conversion that leaves the case as it is
UpperMissing(str) == str

\* str.upper()
Upper(str) == [i \in 1..Len(str) |-> UpperChar(str[i])]

\* members of types.Type
Type_TYPE_UNSPECIFIED == <<"T", "Y", "P", "E", "_", "U", "N", "S", "P", "E", "C", "I", "F", "I", "E", "D">>
Type_STRING == <<"S", "T", "R", "I", "N", "G">>
Type_NUMBER == <<"N", "U", "M", "B", "E", "R">>
Type_INTEGER == <<"I", "N", "T", "E", "G", "E", "R">>
Type_BOOLEAN == <<"B", "O", "O", "L", "E", "A", "N">>
Type_ARRAY == <<"A", "R", "R", "A", "Y">>
Type_OBJECT == <<"O", "B", "J", "E", "C", "T">>
TypeMembers == {Type_TYPE_UNSPECIFIED, Type_STRING, Type_NUMBER, Type_INTEGER, Type_BOOLEAN, Type_ARRAY, Type_OBJECT}

\* getattr(types.Type, name, types.Type.STRING)
GetTypeAttr(name) == IF name \in TypeMembers THEN name ELSE Type_STRING

\* d.get(k, default)
Get(d, k, default) == IF k \in DOMAIN d THEN d[k] ELSE default

\* tool_schema_converter.py:12-13 and 23-24:
\* getattr(types.Type, d.get('type', 'string').upper(), types.Type.STRING)
ResolveType(d) == GetTypeAttr(Upper(Get(d, "type", <<"s", "t", "r", "i", "n", "g">>)))

\* an element schema without a type
ItemsSchemaNoDefault(d) ==
    IF "items" \in DOMAIN d THEN [type |-> ResolveType(d.items)]
    ELSE [type |-> Type_TYPE_UNSPECIFIED]

\* tool_schema_converter.py:22-28: the element schema of an array property
ItemsSchema(d) ==
    IF "items" \in DOMAIN d THEN [type |-> ResolveType(d.items)]
    ELSE [type |-> Type_STRING]

\* tool_schema_converter.py:12-28: the schema of one property
PropSchema(d) ==
    LET prop_type == ResolveType(d)
        prop_schema == [type |-> prop_type, description |-> Get(d, "description", "")]
    IN  IF prop_type = Type_ARRAY
        THEN prop_schema @@ [items |-> ItemsSchema(d)]
        ELSE prop_schema

\* tool_schema_converter.py:9-30: the properties mapping
Properties(schema) ==
    IF "properties" \in DOMAIN schema
    THEN [n \in DOMAIN schema.properties |-> PropSchema(schema.properties[n])]
    ELSE <<>>

\* a required list cut down to the declared properties
RequiredDeclaredOnly(schema) ==
    LET req == Get(schema, "required", <<>>)
    IN  IF \A i \in 1..Len(req) : req[i] \in DOMAIN Properties(schema) THEN req ELSE <<>>

\* tool_schema_converter.py:35: mcpInputSchema.get('required', [])
Required(schema) == Get(schema, "required", <<>>)

\* a non-dict input that reaches the property loop: str has no .get
NonDictFallsThrough(x) == [raised |-> "AttributeError"]

\* tool_schema_converter.py:6-7: types.Schema(type=types.Type.OBJECT)
NonDictSchema(x) == [type |-> Type_OBJECT]

\* tool_schema_converter.py:4-36; input.dict is isinstance(mcpInputSchema, dict)
convert_schema(input) ==
    IF ~input.dict THEN NonDictSchema(input.value)
    ELSE [type |-> Type_OBJECT,
          properties |-> Properties(input.value),
          required |-> Required(input.value)]

\* declared types as servers write them
DeclaredNonArray == { <<"s", "t", "r", "i", "n", "g">>, <<"S", "t", "r", "i", "n", "g">>, <<"i", "n", "t", "e", "g", "e", "r">>, <<"I", "N", "T", "E", "G", "E", "R">>, <<"o", "b", "j", "e", "c", "t">>, <<"u", "n", "k", "n", "o", "w", "n", "_", "t", "y", "p", "e">> }
DeclaredArray == { <<"a", "r", "r", "a", "y">>, <<"A", "r", "r", "a", "y">> }

\* the dicts that have key k with a value of V, and the dict without k
OptField(k, V) == { <<>> } \cup { k :> v : v \in V }

\* 'items' sub-schemas: without a type, typed, of unknown type, and an
\* object with properties of its own
ItemsDefs ==
    OptField("type", { <<"i", "n", "t", "e", "g", "e", "r">>, <<"u", "n", "k", "n", "o", "w", "n", "_", "t", "y", "p", "e">> })
    \cup { ("type" :> <<"O", "b", "j", "e", "c", "t">>) @@ ("properties" :> ("id" :> ("type" :> <<"i", "n", "t", "e", "g", "e", "r">>))) }

\* property definitions
PropDefs ==
    { t @@ d : t \in OptField("type", DeclaredNonArray), d \in OptField("description", {"d"}) }
    \cup { ("type" :> a) @@ i : a \in DeclaredArray, i \in OptField("items", ItemsDefs) }
    \cup { ("type" :> <<"s", "t", "r", "i", "n", "g">>) @@ ("items" :> ("type" :> <<"i", "n", "t", "e", "g", "e", "r">>)) }

PropNameList == <<"topic", "max_results", "paper_id", "query">>
PropNames == { PropNameList[i] : i \in 1..MaxProps }

\* 'required' lists: empty, a declared name, an undeclared name first
RequiredLists == { <<>>, <<"topic">>, <<"ghost", "topic">> }

\* mcpInputSchema values that are dicts
SchemaDicts ==
    { p @@ r : p \in { <<>> } \cup { ("type" :> <<"o", "b", "j", "e", "c", "t">>) @@ ("properties" :> f) :
                                       f \in UNION { [S -> PropDefs] : S \in SUBSET PropNames } },
               r \in OptField("required", RequiredLists) }

\* mcpInputSchema values that are not dicts: a str, None, an int, a list
NonDictValues == { "invalid", "None", "42", "[]" }

\* before convert_schema(tool.inputSchema) of chatbot.py:43
InitSchema ==
    /\ QueryIdle
    /\ ConnectedRegistry
    /\ cpc = "chat" /\ cursor = 3 /\ session = NoSession /\ closed = {}
    /\ cleanupCalls = 0 /\ failed = {} /\ cliRaised = FALSE
    /\ out = "" /\ lastRead = NoRead
    /\ \/ \E d \in SchemaDicts : schemaIn = [dict |-> TRUE, value |-> d]
       \/ \E v \in NonDictValues : schemaIn = [dict |-> FALSE, value |-> v]
    /\ schemaOut = Nothing

\* chatbot.py:43: parameters=convert_schema(tool.inputSchema)
ConvertSchema ==
    /\ schemaOut = Nothing
    /\ schemaOut' = convert_schema(schemaIn)
    /\ UNCHANGED <<schemaIn, queryVars, registryVars, cliVars, shellVars>>

NextSchema == ConvertSchema

SpecSchema == InitSchema /\ [][NextSchema]_vars

(***************************************************************************)
(* Properties of convert_schema, over inputs whose 'properties' is a dict  *)
(* of dicts and whose 'type' values are strings.                           *)
(***************************************************************************)
Converted == schemaOut # Nothing

\* the input's property definitions
InProps ==
    IF schemaIn.dict /\ "properties" \in DOMAIN schemaIn.value
    THEN schemaIn.value.properties
    ELSE <<>>

\* a and b are the same word up to the case of their letters
SameIgnoringCase(a, b) ==
    /\ Len(a) = Len(b)
    /\ \A i \in 1..Len(a) :
          \/ a[i] = b[i]
          \/ \E k \in 1..Len(LowerCase) : {a[i], b[i]} = {LowerCase[k], UpperCase[k]}

\* the member a declared type names, STRING when it is missing or names none
ExpectedType(d) ==
    LET named == IF "type" \in DOMAIN d
                 THEN { m \in TypeMembers : SameIgnoringCase(d.type, m) }
                 ELSE {}
    IN  IF named = {} THEN Type_STRING ELSE CHOOSE m \in named : TRUE

\* C14: every property whose declared type is missing or names no member
\* of types.Type gets STRING; every property whose declared type names a
\* member, whatever the case of its letters, gets that member.
C14_TypeResolution ==
    Converted /\ schemaIn.dict
      => \A n \in DOMAIN InProps :
            schemaOut.properties[n].type = ExpectedType(InProps[n])

\* one schema with an unknown type and a lower-case member name
C14_Witness ==
    /\ Converted /\ schemaIn.dict
    /\ \E n, m \in DOMAIN InProps :
          /\ "type" \in DOMAIN InProps[n]
          /\ InProps[n].type = <<"u", "n", "k", "n", "o", "w", "n", "_", "t", "y", "p", "e">>
          /\ schemaOut.properties[n].type = Type_STRING
          /\ "type" \in DOMAIN InProps[m]
          /\ InProps[m].type = <<"i", "n", "t", "e", "g", "e", "r">>
          /\ schemaOut.properties[m].type = Type_INTEGER

\* C15: every array-typed property gets an element schema: STRING without
\* 'items', else the type the items declare, resolved by the same rule,
\* and nothing but that type (an object item keeps no properties).
C15_ArrayItems ==
    Converted /\ schemaIn.dict
      => \A n \in DOMAIN InProps :
            LET d == InProps[n]
                o == schemaOut.properties[n]
            IN  "type" \in DOMAIN d /\ SameIgnoringCase(d.type, Type_ARRAY)
                  => /\ "items" \in DOMAIN o
                     /\ o.items = [type |-> IF "items" \in DOMAIN d
                                            THEN ExpectedType(d.items)
                                            ELSE Type_STRING]

\* an array without items next to an array of objects that have properties
C15_Witness ==
    /\ Converted /\ schemaIn.dict
    /\ \E n, m \in DOMAIN InProps :
          /\ schemaOut.properties[n].type = Type_ARRAY
          /\ "items" \notin DOMAIN InProps[n]
          /\ schemaOut.properties[n].items.type = Type_STRING
          /\ schemaOut.properties[m].type = Type_ARRAY
          /\ "items" \in DOMAIN InProps[m]
          /\ "properties" \in DOMAIN InProps[m].items
          /\ schemaOut.properties[m].items = [type |-> Type_OBJECT]

\* C16: for an input that is not a dict convert_schema does not raise and
\* returns a schema of type OBJECT without properties.
C16_NonDictIsBareObject ==
    Converted /\ ~schemaIn.dict
      => /\ "raised" \notin DOMAIN schemaOut
         /\ schemaOut.type = Type_OBJECT
         /\ "properties" \in DOMAIN schemaOut => DOMAIN schemaOut.properties = {}

C16_Witness ==
    /\ Converted /\ ~schemaIn.dict
    /\ schemaIn.value = "invalid"
    /\ schemaOut.type = Type_OBJECT

\* C17: for a dict the result has type OBJECT, a properties mapping with
\* exactly the input's property names, and the input's 'required' list as
\* it is, [] when there is none, also with undeclared names in it and
\* without 'properties'.
C17_TopLevelShape ==
    Converted /\ schemaIn.dict
      => /\ schemaOut.type = Type_OBJECT
         /\ "properties" \in DOMAIN schemaOut
         /\ DOMAIN schemaOut.properties = DOMAIN InProps
         /\ schemaOut.required = IF "required" \in DOMAIN schemaIn.value
                                  THEN schemaIn.value.required
                                  ELSE <<>>

\* a required list that names an undeclared property, with one declared
C17_Witness ==
    /\ Converted /\ schemaIn.dict
    /\ DOMAIN InProps = {"topic"}
    /\ "required" \in DOMAIN schemaIn.value
    /\ schemaIn.value.required = <<"ghost", "topic">>
    /\ schemaOut.required = <<"ghost", "topic">>

(***************************************************************************)
(* Further properties of process_query and of the chat commands.           *)
(***************************************************************************)
\* process_query is running, before and after the step
InsideQuery == pc \notin {"idle", "prompt"} /\ pc' \notin {"idle", "prompt"}

\* C21: every process_query call starts from a transcript that holds only
\* its own user turn, whatever an earlier call left, and inside the call the
\* transcript changes by appending one entry at the end and in no other way.
C21_TranscriptPerQueryAppendOnly ==
    [][ /\ (pc \in {"idle", "prompt"} /\ pc' = "generate")
              => contents' = <<UserTurn(query')>>
        /\ InsideQuery =>
              \/ contents' = contents
              \/ /\ Len(contents') = Len(contents) + 1
                 /\ SubSeq(contents', 1, Len(contents)) = contents ]_vars

\* a call has ended with a result and an error appended after its user
\* turn, and chat_loop is about to read the next query
C21_Witness ==
    /\ AtPrompt
    /\ Len(contents) >= 3
    /\ contents[1] = UserTurn(query)
    /\ \E i, j \in 2..Len(contents) :
          contents[i].payload[1] = "content" /\ contents[j].payload[1] = "error"

\* C22: once chat_loop runs, process_query, get_resource, list_prompts and
\* execute_prompt leave session_maps, available_tools and available_prompts
\* as they are, whatever the model and the tools do.
C22_RegistryReadOnlyInChat ==
    [][ cpc = "chat" =>
          /\ session_maps' = session_maps
          /\ available_tools' = available_tools
          /\ available_prompts' = available_prompts ]_vars

\* a query entered through execute_prompt or typed has had a tool succeed
\* and a tool fail, and the registry is the one connect left
C22_Witness ==
    /\ pc = "done"
    /\ \E i, j \in 2..Len(contents) :
          contents[i].payload[1] = "content" /\ contents[j].payload[1] = "error"
    /\ Keys(session_maps) = { regLog[i].name : i \in 1..Len(regLog) }
    /\ Len(session_maps) = Len(regLog)
    /\ Len(available_prompts) = 1

\* C23: the truncation warning is printed only when the ceiling cut the
\* loop off: a call that ends on a response without function calls prints
\* no warning, after any number of handling passes from 0 to 10.
C23_NoWarningOnNaturalEnd ==
    pc = "done" /\ ~HasCalls(response) => ~warned

\* the function-call request the for loop is at
CurrentCall == response.function_calls[idx]

\* C24: call_tool is invoked only for a request whose name is non-empty and
\* in the registry, on the session registered under that very name, with
\* the request's arguments ({} when it has none); a request with an empty
\* or unregistered name invokes nothing.
C24_OnlyRegisteredNamesInvoked ==
    /\ [](pc = "calling" =>
            /\ inflight.name = CurrentCall.name
            /\ inflight.name # ""
            /\ \E i \in 1..Len(session_maps) :
                  /\ session_maps[i].name = inflight.name
                  /\ session_maps[i].session = inflight.session
            /\ inflight.args = IF CurrentCall.args = NoneArgs THEN EmptyArgs
                                ELSE CurrentCall.args)
    /\ [][ /\ numInvocations' # numInvocations /\ pc # "idle" /\ pc' # "idle"
              => pc = "for" /\ pc' = "calling" /\ numInvocations' = numInvocations + 1
           /\ pc = "for" /\ idx <= Len(response.function_calls)
                /\ (CurrentCall.name = "" \/ CurrentCall.name \notin Keys(session_maps))
              => pc' = "for" /\ numInvocations' = numInvocations
                   /\ inflight' = NoCall /\ contents' = contents ]_vars

\* t1 is being invoked with its arguments after an unregistered or empty
\* request of the same response was passed over
C24_Witness ==
    /\ pc = "calling"
    /\ idx = 2
    /\ response.function_calls[1].name \in {"", "zz"}
    /\ inflight = [session |-> 1, name |-> "t1", args |-> "{x}"]
    /\ numInvocations = 1

====
